---- MODULE Spec2Model ----
(***************************************************************************)
(* Membership, permission, task, comment and session model of the         *)
(* TaskManagement server (server/src/models/Project.ts, the project, task  *)
(* and comment services, the auth controller and middleware) and of the    *)
(* web client's token-refresh interceptor (web/src/api/auth.ts).           *)
(*                                                                         *)
(* Documents are records; a collection maps an id to a document, to NoDoc  *)
(* (id never allocated) or to Deleted (document removed: ObjectIds are not *)
(* reused).  save() replaces the stored document by the in-memory copy and *)
(* fails when the document is gone (last write wins, no version token).    *)
(* The member role domain is the one the service interface accepts         *)
(* (ProjectMemberData) plus the 'owner' role the seed script stores.       *)
(***************************************************************************)
EXTENDS Integers, Sequences, FiniteSets, TLC

VARIABLES projects, tasks, comments, log, now, last, inflight,
          accounts, redis, issued, client

\* the authentication side: user accounts, the refresh-token store, the tokens
\* handed out so far and the browser client
session == <<accounts, redis, issued, client>>

vars == <<projects, tasks, comments, log, now, last, inflight, session>>

(* ------------------------------ bounds --------------------------------- *)
\* requests served in one behaviour (every request reads the clock once)
MaxClock == 2
\* largest position a client sends to updateTaskPosition
MaxPosition == 1
\* requests that may be between their read and their save at the same time
MaxInflight == 2
\* requests served in one behaviour of the interleaved specification
MaxConcRequests == 2
\* seconds that pass in one behaviour of the authentication specifications
MaxSeconds == 1
\* account deactivations and activations recorded in one behaviour
MaxAuditEntries == 2

Users == {"u1", "u2", "u3"}
ProjectIds == {1, 2}
TaskIds == {1, 2}
CommentIds == {1, 2}
Positions == 0..MaxPosition
Slots == 1..MaxInflight

NoDoc == [doc |-> "none"]
Deleted == [doc |-> "deleted"]
Null == [doc |-> "null"]
Nil == "nil"
Idle == [pc |-> "idle"]
\* the parentId of a top-level comment
NoParent == 0

(* ------------------------- roles and capabilities ---------------------- *)
Roles == {"owner", "admin", "member", "viewer"}
\* slip: the role validation lists every role of the schema
InviteRoles_everyRole == Roles
InviteRoles == {"admin", "member", "viewer"}
Capabilities == {"canEdit", "canDelete", "canInvite", "canManageTasks"}

RoleCapabilities(role) ==
  CASE role = "owner"  -> {"canEdit", "canDelete", "canInvite", "canManageTasks"}
    [] role = "admin"  -> {"canEdit", "canInvite", "canManageTasks"}
    [] role = "member" -> {"canManageTasks"}
    [] OTHER           -> {}

(* ----------------------- Project document methods ---------------------- *)
IsDoc(d) == d # NoDoc /\ d # Deleted

findById(coll, id) == IF id \in DOMAIN coll /\ IsDoc(coll[id]) THEN coll[id] ELSE Null

MemberIndexes(project, userId) ==
  {i \in 1..Len(project.members) : project.members[i].userId = userId}

FirstIndex(S) == CHOOSE i \in S : \A j \in S : i <= j

\* this.members.some(m => m.userId === userId)
isMember(project, userId) == MemberIndexes(project, userId) # {}

\* this.members.find(...) ? member.role : null
getMemberRole(project, userId) ==
  IF MemberIndexes(project, userId) = {} THEN Nil
  ELSE project.members[FirstIndex(MemberIndexes(project, userId))].role

\* owner short-circuit, otherwise a stored role of owner or admin
canManage(project, userId) ==
  IF project.ownerId = userId THEN TRUE
  ELSE getMemberRole(project, userId) \in {"owner", "admin"}

\* role looked up through getMemberRole, then the capability table; unknown user => false
hasPermission(project, userId, capability) ==
  LET role == getMemberRole(project, userId)
  IN  IF role = Nil THEN FALSE ELSE capability \in RoleCapabilities(role)

\* upsert: overwrite the role of the first matching entry, else push {userId, role, joinedAt: now}
addMember(project, userId, role, t) ==
  LET idx == MemberIndexes(project, userId)
  IN  IF idx # {}
      THEN [project EXCEPT !.members[FirstIndex(idx)].role = role]
      ELSE [project EXCEPT !.members =
              Append(@, [userId |-> userId, role |-> role, joinedAt |-> t])]

\* this.members = this.members.filter(m => m.userId !== userId)
removeMember(project, userId) ==
  [project EXCEPT !.members = SelectSeq(@, LAMBDA m : m.userId # userId)]

\* slip: the role change done as an upsert, a missing entry is created
updateMemberRole_upsert(project, userId, role) ==
  LET idx == MemberIndexes(project, userId)
  IN  IF idx # {}
      THEN [project EXCEPT !.members[FirstIndex(idx)].role = role]
      ELSE [project EXCEPT !.members =
              Append(@, [userId |-> userId, role |-> role, joinedAt |-> 0])]

\* in-place role replacement of the matching entry; no-op when the user has no entry
updateMemberRole(project, userId, role) ==
  LET idx == MemberIndexes(project, userId)
  IN  IF idx # {}
      THEN [project EXCEPT !.members[FirstIndex(idx)].role = role]
      ELSE project

(* ------------------------------ responses ------------------------------ *)
Response(op, actor, pid, tid, target, arg, result) ==
  [op |-> op, actor |-> actor, pid |-> pid, tid |-> tid,
   target |-> target, arg |-> arg, result |-> result]

NoResponse == Response("none", Nil, 0, 0, Nil, Nil, "none")

\* what the caller observes: an error response carries the error code only
Reply(op, actor, pid, tid, target, arg, result) ==
  IF result = "OK" THEN Response(op, actor, pid, tid, target, arg, result)
  ELSE Response(op, actor, pid, tid, Nil, Nil, result)

FreeIds(coll) == {i \in DOMAIN coll : coll[i] = NoDoc}

Tick == now < MaxClock /\ now' = now + 1

\* an ObjectId as ActivityLog stores it in its userId and projectId fields, where
\* the ids of users, projects and tasks are values of one type
ProjectRef(pid) == CASE pid = 1 -> "p1" [] pid = 2 -> "p2" [] OTHER -> "p0"

TaskRef(tid) == CASE tid = 1 -> "t1" [] tid = 2 -> "t2" [] tid = 3 -> "t3" [] OTHER -> "t0"

\* ActivityLog.logActivity({action, entityType, entityId, userId, projectId, ...}):
\* one entry appended
logActivity(action, entityType, entityId, userId, projectId) ==
  Append(log, [action |-> action, entityType |-> entityType, entityId |-> entityId,
               userId |-> userId, projectId |-> projectId])

\* the action name each operation passes to logActivity
ActivityOf(op) ==
  CASE op = "createProject"      -> "project.created"
    [] op = "updateProject"      -> "project.updated"
    [] op = "deleteProject"      -> "project.deleted"
    [] op = "addMember"          -> "project.member_added"
    [] op = "removeMember"       -> "project.member_removed"
    [] op = "updateMemberRole"   -> "project.member_role_changed"
    [] op = "createTask"         -> "task.created"
    [] op = "updateTask"         -> "task.updated"
    [] op = "deleteTask"         -> "task.deleted"
    [] op = "updateTaskPosition" -> "task.position_changed"
    [] op = "createComment"      -> "comment.created"
    [] op = "updateComment"      -> "comment.updated"
    [] op = "deleteComment"      -> "comment.deleted"
    [] op = "addReaction"        -> "comment.reaction_added"
    [] op = "removeReaction"     -> "comment.reaction_removed"
    [] OTHER                     -> Nil

\* slip: the delete handlers return without writing their entry
Logged_notOnDelete(result, action, entityType, entityId, userId, projectId) ==
  log' = IF result = "OK" /\ action \notin {"project.deleted", "task.deleted", "comment.deleted"}
         THEN logActivity(action, entityType, entityId, userId, projectId)
         ELSE log

\* the handlers reach their logActivity call only when no error was thrown
Logged(result, action, entityType, entityId, userId, projectId) ==
  log' = IF result = "OK"
         THEN logActivity(action, entityType, entityId, userId, projectId)
         ELSE log

(* ------------------------------ initial state -------------------------- *)
\* seed script: project owned by the admin user, who is stored as an 'owner'
\* member next to one 'member' user
SeedProject ==
  [ownerId |-> "u1", status |-> "active",
   members |-> << [userId |-> "u1", role |-> "owner", joinedAt |-> 0],
                  [userId |-> "u2", role |-> "member", joinedAt |-> 0] >>]

\* seed script: the task 'Design user interface' of the seeded project, created by
\* the admin user for the member user (the seed stores its position as order: 0)
SeedTask ==
  [projectId |-> 1, assigneeId |-> "u2", createdById |-> "u1",
   status |-> "in_progress", position |-> 0, isArchived |-> FALSE]

\* seed script: the member user's comment on that task
SeedComment ==
  [taskId |-> 1, authorId |-> "u2", parentId |-> NoParent, content |-> "draft",
   isDeleted |-> FALSE, reactions |-> {}]

\* jwt.sign(payload, secret, {expiresIn}): the token is a function of the payload,
\* the secret and the issue time in whole seconds (iat); nothing else enters it
Token(kind, userId, iat) == [kind |-> kind, userId |-> userId, iat |-> iat]

NoToken == Token("none", Nil, 0)

\* the seeded accounts: the admin user and the member user; u3 has not signed up
SeedAccounts ==
  [u \in Users |-> IF u = "u1" THEN [roles |-> {"admin"}, isActive |-> TRUE]
                   ELSE IF u = "u2" THEN [roles |-> {"member"}, isActive |-> TRUE]
                   ELSE NoDoc]

\* nobody is signed in: no refresh token stored, none handed out
NoTokens == [all |-> {}, loggedOut |-> {}, exchanged |-> {}]

\* the browser has no auth storage and no request under way
ClosedBrowser == [storage |-> NoDoc, requests |-> << >>]

SignedOut ==
  /\ accounts = SeedAccounts
  /\ redis = [u \in Users |-> NoToken]
  /\ issued = NoTokens
  /\ client = ClosedBrowser

EmptyDatabase ==
  /\ projects = [p \in ProjectIds |-> NoDoc]
  /\ tasks = [t \in TaskIds |-> NoDoc]
  /\ comments = [c \in CommentIds |-> NoDoc]

SeededDatabase ==
  /\ projects = [p \in ProjectIds |-> IF p = 1 THEN SeedProject ELSE NoDoc]
  /\ tasks = [t \in TaskIds |-> IF t = 1 THEN SeedTask ELSE NoDoc]
  /\ comments = [c \in CommentIds |-> IF c = 1 THEN SeedComment ELSE NoDoc]

Init ==
  /\ EmptyDatabase \/ SeededDatabase
  /\ log = << >>
  /\ now = 0
  /\ last = NoResponse
  /\ inflight = [s \in Slots |-> Idle]
  /\ SignedOut

(* ----------------------------- ProjectService -------------------------- *)
\* Object.assign(doc, data): every field the payload carries replaces the document's
assign(doc, data) ==
  [f \in DOMAIN doc |-> IF f \in DOMAIN data THEN data[f] ELSE doc[f]]

\* request bodies of PUT /projects/:id; the controller hands req.body over whole,
\* so a body may carry fields UpdateProjectData does not list
UpdateProjectPayloads ==
  { [status |-> "archived"],
    [ownerId |-> "u3"],
    [members |-> << [userId |-> "u1", role |-> "owner", joinedAt |-> 0],
                    [userId |-> "u2", role |-> "member", joinedAt |-> 0],
                    [userId |-> "u2", role |-> "member", joinedAt |-> 0] >>] }

ProjectService_createProject(ownerId) ==
  /\ Tick
  /\ FreeIds(projects) # {}
  /\ LET pid == FirstIndex(FreeIds(projects))
     IN  /\ projects' = [projects EXCEPT ![pid] =
                           [ownerId |-> ownerId, status |-> "active", members |-> << >>]]
         /\ last' = Response("createProject", ownerId, pid, 0, Nil, Nil, "OK")
         /\ Logged("OK", "project.created", "project", pid, ProjectRef(pid), ProjectRef(pid))
  /\ UNCHANGED <<tasks, comments, inflight, session>>

ProjectService_getProjectById(pid, userId) ==
  /\ Tick
  /\ LET project == findById(projects, pid)
         result == IF project = Null THEN "PROJECT_NOT_FOUND"
                   ELSE IF ~isMember(project, userId) THEN "ACCESS_DENIED"
                   ELSE "OK"
     IN  last' = Response("getProjectById", userId, pid, 0, Nil, Nil, result)
  /\ UNCHANGED <<projects, tasks, comments, log, inflight, session>>

ProjectService_updateProject(pid, data, userId) ==
  /\ Tick
  /\ LET project == findById(projects, pid)
         result == IF project = Null THEN "PROJECT_NOT_FOUND"
                   ELSE IF ~hasPermission(project, userId, "canEdit")
                        THEN "INSUFFICIENT_PERMISSIONS"
                   ELSE "OK"
     IN  /\ projects' = IF result = "OK"
                        THEN [projects EXCEPT ![pid] = assign(project, data)]
                        ELSE projects
         /\ last' = Reply("updateProject", userId, pid, 0, Nil, data, result)
         /\ Logged(result, "project.updated", "project", pid, userId,
                   ProjectRef(pid))
  /\ UNCHANGED <<tasks, comments, inflight, session>>

ProjectService_deleteProject(pid, userId) ==
  /\ Tick
  /\ LET project == findById(projects, pid)
         result == IF project = Null THEN "PROJECT_NOT_FOUND"
                   ELSE IF ~hasPermission(project, userId, "canDelete")
                        THEN "INSUFFICIENT_PERMISSIONS"
                   ELSE "OK"
     IN  /\ projects' = IF result = "OK"
                        THEN [projects EXCEPT ![pid] = Deleted]
                        ELSE projects
         /\ last' = Response("deleteProject", userId, pid, 0, Nil, Nil, result)
         /\ Logged(result, "project.deleted", "project", pid, userId,
                   ProjectRef(pid))
  /\ UNCHANGED <<tasks, comments, inflight, session>>

ProjectService_addMember(pid, memberUserId, role, userId) ==
  /\ Tick
  /\ LET project == findById(projects, pid)
         result == IF project = Null THEN "PROJECT_NOT_FOUND"
                   ELSE IF ~hasPermission(project, userId, "canInvite")
                        THEN "INSUFFICIENT_PERMISSIONS"
                   ELSE "OK"
     IN  /\ projects' = IF result = "OK"
                        THEN [projects EXCEPT ![pid] = addMember(project, memberUserId, role, now')]
                        ELSE projects
         /\ last' = Reply("addMember", userId, pid, 0, memberUserId, role, result)
         /\ Logged(result, "project.member_added", "project", pid, userId,
                   ProjectRef(pid))
  /\ UNCHANGED <<tasks, comments, inflight, session>>

ProjectService_removeMember(pid, memberUserId, userId) ==
  /\ Tick
  /\ LET project == findById(projects, pid)
         result == IF project = Null THEN "PROJECT_NOT_FOUND"
                   ELSE IF ~hasPermission(project, userId, "canInvite")
                        THEN "INSUFFICIENT_PERMISSIONS"
                   ELSE "OK"
     IN  /\ projects' = IF result = "OK"
                        THEN [projects EXCEPT ![pid] = removeMember(project, memberUserId)]
                        ELSE projects
         /\ last' = Reply("removeMember", userId, pid, 0, memberUserId, Nil, result)
         /\ Logged(result, "project.member_removed", "project", pid, userId,
                   ProjectRef(pid))
  /\ UNCHANGED <<tasks, comments, inflight, session>>

ProjectService_updateMemberRole(pid, memberUserId, role, userId) ==
  /\ Tick
  /\ LET project == findById(projects, pid)
         result == IF project = Null THEN "PROJECT_NOT_FOUND"
                   ELSE IF ~hasPermission(project, userId, "canInvite")
                        THEN "INSUFFICIENT_PERMISSIONS"
                   ELSE "OK"
     IN  /\ projects' = IF result = "OK"
                        THEN [projects EXCEPT ![pid] = updateMemberRole(project, memberUserId, role)]
                        ELSE projects
         /\ last' = Reply("updateMemberRole", userId, pid, 0, memberUserId, role, result)
         /\ Logged(result, "project.member_role_changed", "project", pid, userId,
                   ProjectRef(pid))
  /\ UNCHANGED <<tasks, comments, inflight, session>>

ProjectNext ==
  \/ \E u \in Users : ProjectService_createProject(u)
  \/ \E p \in ProjectIds, u \in Users : ProjectService_getProjectById(p, u)
  \/ \E p \in ProjectIds, d \in UpdateProjectPayloads, u \in Users :
        ProjectService_updateProject(p, d, u)
  \/ \E p \in ProjectIds, u \in Users : ProjectService_deleteProject(p, u)
  \/ \E p \in ProjectIds, m \in Users, r \in InviteRoles, u \in Users :
        ProjectService_addMember(p, m, r, u)
  \/ \E p \in ProjectIds, m \in Users, u \in Users : ProjectService_removeMember(p, m, u)
  \/ \E p \in ProjectIds, m \in Users, r \in InviteRoles, u \in Users :
        ProjectService_updateMemberRole(p, m, r, u)

(* ------------------------------- TaskService --------------------------- *)
ProjectTasks(pid) == {t \in DOMAIN tasks : IsDoc(tasks[t]) /\ tasks[t].projectId = pid}

MaxOf(S) == CHOOSE n \in S : \A m \in S : m <= n

\* slip: the last task looked up without the projectId filter
nextPosition_global(pid) ==
  IF {t \in DOMAIN tasks : IsDoc(tasks[t])} = {} THEN 0
  ELSE MaxOf({tasks[t].position : t \in {x \in DOMAIN tasks : IsDoc(tasks[x])}}) + 1

\* Task.findOne({projectId}).sort({position: -1}); lastTask ? lastTask.position + 1 : 0
nextPosition(pid) ==
  IF ProjectTasks(pid) = {} THEN 0
  ELSE MaxOf({tasks[t].position : t \in ProjectTasks(pid)}) + 1

\* request bodies of PUT /tasks/:id; the controller hands req.body over whole, so
\* a body may carry fields UpdateTaskData does not list
UpdateTaskPayloads ==
  { [status |-> "in_progress"],
    [assigneeId |-> "u3"],
    [status |-> "completed", position |-> 0],
    [projectId |-> 2],
    [createdById |-> "u3"] }

TaskService_createTask(projectId, assigneeId, createdById) ==
  /\ Tick
  /\ LET project == findById(projects, projectId)
         result == IF project = Null THEN "PROJECT_NOT_FOUND"
                   ELSE IF ~isMember(project, createdById) THEN "ACCESS_DENIED"
                   ELSE IF assigneeId # Nil /\ ~isMember(project, assigneeId)
                        THEN "INVALID_ASSIGNEE"
                   ELSE "OK"
     IN  IF result = "OK"
         THEN /\ FreeIds(tasks) # {}
              /\ LET tid == FirstIndex(FreeIds(tasks))
                 IN  /\ tasks' = [tasks EXCEPT ![tid] =
                                    [projectId |-> projectId, assigneeId |-> assigneeId,
                                     createdById |-> createdById, status |-> "pending",
                                     position |-> nextPosition(projectId), isArchived |-> FALSE]]
                     /\ last' = Response("createTask", createdById, projectId, tid,
                                         assigneeId, Nil, result)
                     /\ Logged(result, "task.created", "task", tid, createdById,
                               ProjectRef(projectId))
         ELSE /\ tasks' = tasks
              /\ last' = Response("createTask", createdById, projectId, 0,
                                  assigneeId, Nil, result)
              /\ log' = log
  /\ UNCHANGED <<projects, comments, inflight, session>>

\* the checks shared by getTaskById, updateTaskPosition and the head of updateTask/deleteTask
TaskAccess(task, userId) ==
  IF task = Null THEN "TASK_NOT_FOUND"
  ELSE LET project == findById(projects, task.projectId)
       IN  IF project = Null \/ ~isMember(project, userId) THEN "ACCESS_DENIED"
           ELSE "OK"

\* slip: the capability check placed before the membership check
TaskManageAccess_permissionFirst(task, userId) ==
  IF task = Null THEN "TASK_NOT_FOUND"
  ELSE LET project == findById(projects, task.projectId)
       IN  IF project = Null THEN "ACCESS_DENIED"
           ELSE IF ~hasPermission(project, userId, "canManageTasks")
                THEN "INSUFFICIENT_PERMISSIONS"
           ELSE IF ~isMember(project, userId) THEN "ACCESS_DENIED"
           ELSE "OK"

\* updateTask and deleteTask add the canManageTasks check after the membership check
TaskManageAccess(task, userId) ==
  IF TaskAccess(task, userId) # "OK" THEN TaskAccess(task, userId)
  ELSE IF ~hasPermission(findById(projects, task.projectId), userId, "canManageTasks")
       THEN "INSUFFICIENT_PERMISSIONS"
  ELSE "OK"

TaskPid(task) == IF task = Null THEN 0 ELSE task.projectId

TaskService_getTaskById(taskId, userId) ==
  /\ Tick
  /\ LET task == findById(tasks, taskId)
     IN  last' = Response("getTaskById", userId, TaskPid(task), taskId, Nil, Nil,
                          TaskAccess(task, userId))
  /\ UNCHANGED <<projects, tasks, comments, log, inflight, session>>

\* slip: Object.assign and save placed between the membership check and the
\* capability check
TaskService_updateTask_saveBeforePermission(taskId, data, userId) ==
  /\ Tick
  /\ LET task == findById(tasks, taskId)
         result == TaskManageAccess(task, userId)
     IN  /\ tasks' = IF TaskAccess(task, userId) = "OK"
                     THEN [tasks EXCEPT ![taskId] = assign(task, data)]
                     ELSE tasks
         /\ last' = Reply("updateTask", userId, TaskPid(task), taskId, Nil, data, result)
         /\ Logged(result, "task.updated", "task", taskId, userId,
                   ProjectRef(assign(task, data).projectId))
  /\ UNCHANGED <<projects, comments, inflight, session>>

TaskService_updateTask(taskId, data, userId) ==
  /\ Tick
  /\ LET task == findById(tasks, taskId)
         result == TaskManageAccess(task, userId)
     IN  /\ tasks' = IF result = "OK"
                     THEN [tasks EXCEPT ![taskId] = assign(task, data)]
                     ELSE tasks
         /\ last' = Reply("updateTask", userId, TaskPid(task), taskId, Nil, data, result)
         /\ Logged(result, "task.updated", "task", taskId, userId,
                   ProjectRef(assign(task, data).projectId))
  /\ UNCHANGED <<projects, comments, inflight, session>>

TaskService_deleteTask(taskId, userId) ==
  /\ Tick
  /\ LET task == findById(tasks, taskId)
         result == TaskManageAccess(task, userId)
     IN  /\ tasks' = IF result = "OK" THEN [tasks EXCEPT ![taskId] = Deleted] ELSE tasks
         /\ last' = Response("deleteTask", userId, TaskPid(task), taskId, Nil, Nil, result)
         /\ Logged(result, "task.deleted", "task", taskId, userId,
                   ProjectRef(task.projectId))
  /\ UNCHANGED <<projects, comments, inflight, session>>

\* slip: the move makes room, tasks of the project at or after the new position shift by one
TaskService_updateTaskPosition_shift(taskId, newPosition, userId) ==
  /\ Tick
  /\ LET task == findById(tasks, taskId)
         result == TaskAccess(task, userId)
     IN  /\ tasks' = IF result = "OK"
                     THEN [t \in DOMAIN tasks |->
                             IF t = taskId THEN [task EXCEPT !.position = newPosition]
                             ELSE IF /\ IsDoc(tasks[t])
                                     /\ tasks[t].projectId = task.projectId
                                     /\ tasks[t].position >= newPosition
                                  THEN [tasks[t] EXCEPT !.position = @ + 1]
                             ELSE tasks[t]]
                     ELSE tasks
         /\ last' = Reply("updateTaskPosition", userId, TaskPid(task), taskId, Nil,
                             newPosition, result)
         /\ Logged(result, "task.position_changed", "task", taskId, userId,
                   ProjectRef(task.projectId))
  /\ UNCHANGED <<projects, comments, inflight, session>>

TaskService_updateTaskPosition(taskId, newPosition, userId) ==
  /\ Tick
  /\ LET task == findById(tasks, taskId)
         result == TaskAccess(task, userId)
     IN  /\ tasks' = IF result = "OK"
                     THEN [tasks EXCEPT ![taskId] = [task EXCEPT !.position = newPosition]]
                     ELSE tasks
         /\ last' = Reply("updateTaskPosition", userId, TaskPid(task), taskId, Nil,
                             newPosition, result)
         /\ Logged(result, "task.position_changed", "task", taskId, userId,
                   ProjectRef(task.projectId))
  /\ UNCHANGED <<projects, comments, inflight, session>>

TaskNext ==
  \/ \E p \in ProjectIds, a \in Users \cup {Nil}, u \in Users : TaskService_createTask(p, a, u)
  \/ \E t \in DOMAIN tasks, u \in Users : TaskService_getTaskById(t, u)
  \/ \E t \in DOMAIN tasks, d \in UpdateTaskPayloads, u \in Users :
        TaskService_updateTask(t, d, u)
  \/ \E t \in DOMAIN tasks, u \in Users : TaskService_deleteTask(t, u)
  \/ \E t \in DOMAIN tasks, n \in Positions, u \in Users :
        TaskService_updateTaskPosition(t, n, u)

(* ------------------------------ CommentService ------------------------ *)
Emojis == {"thumbsup"}

\* request bodies of PUT /comments/:id; the controller hands req.body over whole
UpdateCommentPayloads == { [content |-> "edited"], [authorId |-> "u3"] }

\* comment.softDelete(): the soft-delete flag is raised, the document stays stored
softDelete(comment) == [comment EXCEPT !.isDeleted = TRUE]

\* comment.addReaction(userId, emoji): the user joins the emoji's reactors
addReaction(comment, userId, emoji) ==
  [comment EXCEPT !.reactions = @ \cup {[userId |-> userId, emoji |-> emoji]}]

\* comment.removeReaction(userId, emoji): the user leaves the emoji's reactors
removeReaction(comment, userId, emoji) ==
  [comment EXCEPT !.reactions = @ \ {[userId |-> userId, emoji |-> emoji]}]

CommentRequest(commentId, body) == [commentId |-> commentId, body |-> body]

CommentService_createComment(taskId, parentId, authorId) ==
  /\ Tick
  /\ LET task == findById(tasks, taskId)
         project == IF task = Null THEN Null ELSE findById(projects, task.projectId)
         parentComment == findById(comments, parentId)
         result == IF task = Null THEN "TASK_NOT_FOUND"
                   ELSE IF project = Null \/ ~isMember(project, authorId) THEN "ACCESS_DENIED"
                   ELSE IF /\ parentId # NoParent
                           /\ (parentComment = Null \/ parentComment.taskId # taskId)
                        THEN "PARENT_COMMENT_NOT_FOUND"
                   ELSE "OK"
     IN  IF result = "OK"
         THEN /\ FreeIds(comments) # {}
              /\ LET cid == FirstIndex(FreeIds(comments))
                 IN  /\ comments' = [comments EXCEPT ![cid] =
                                       [taskId |-> taskId, authorId |-> authorId,
                                        parentId |-> parentId, content |-> "draft",
                                        isDeleted |-> FALSE, reactions |-> {}]]
                     /\ last' = Response("createComment", authorId, TaskPid(task), taskId,
                                         Nil, CommentRequest(cid, parentId), result)
                     /\ Logged(result, "comment.created", "comment", cid, authorId,
                               ProjectRef(task.projectId))
         ELSE /\ comments' = comments
              /\ last' = Response("createComment", authorId, TaskPid(task), taskId,
                                  Nil, CommentRequest(0, parentId), result)
              /\ log' = log
  /\ UNCHANGED <<projects, tasks, inflight, session>>

\* slip: every member of the task's project may edit or delete, not the author alone
CommentAuthorAccess_anyMember(comment, userId) ==
  IF comment = Null THEN "COMMENT_NOT_FOUND"
  ELSE LET task == findById(tasks, comment.taskId)
           project == IF task = Null THEN Null ELSE findById(projects, task.projectId)
       IN  IF project = Null \/ ~isMember(project, userId) THEN "ACCESS_DENIED"
           ELSE "OK"

\* the checks of updateComment and deleteComment
CommentAuthorAccess(comment, userId) ==
  IF comment = Null THEN "COMMENT_NOT_FOUND"
  ELSE IF comment.authorId # userId THEN "ACCESS_DENIED"
  ELSE "OK"

\* the checks of addReaction and removeReaction
ReactionAccess(comment, userId) ==
  IF comment = Null THEN "COMMENT_NOT_FOUND"
  ELSE LET task == findById(tasks, comment.taskId)
       IN  IF task = Null THEN "TASK_NOT_FOUND"
           ELSE LET project == findById(projects, task.projectId)
                IN  IF project = Null \/ ~isMember(project, userId) THEN "ACCESS_DENIED"
                    ELSE "OK"

CommentTid(comment) == IF comment = Null THEN 0 ELSE comment.taskId

CommentPid(comment) ==
  IF comment = Null THEN 0 ELSE TaskPid(findById(tasks, comment.taskId))

CommentService_updateComment(commentId, data, userId) ==
  /\ Tick
  /\ LET comment == findById(comments, commentId)
         result == CommentAuthorAccess(comment, userId)
     IN  /\ comments' = IF result = "OK"
                        THEN [comments EXCEPT ![commentId] = assign(comment, data)]
                        ELSE comments
         /\ last' = Response("updateComment", userId, CommentPid(comment), CommentTid(comment),
                             Nil, CommentRequest(commentId, data), result)
         /\ Logged(result, "comment.updated", "comment", commentId, userId,
                   TaskRef(assign(comment, data).taskId))
  /\ UNCHANGED <<projects, tasks, inflight, session>>

CommentService_deleteComment(commentId, userId) ==
  /\ Tick
  /\ LET comment == findById(comments, commentId)
         result == CommentAuthorAccess(comment, userId)
     IN  /\ comments' = IF result = "OK"
                        THEN [comments EXCEPT ![commentId] = softDelete(comment)]
                        ELSE comments
         /\ last' = Response("deleteComment", userId, CommentPid(comment), CommentTid(comment),
                             Nil, CommentRequest(commentId, Nil), result)
         /\ Logged(result, "comment.deleted", "comment", commentId, userId,
                   TaskRef(comment.taskId))
  /\ UNCHANGED <<projects, tasks, inflight, session>>

CommentService_addReaction(commentId, emoji, userId) ==
  /\ Tick
  /\ LET comment == findById(comments, commentId)
         result == ReactionAccess(comment, userId)
     IN  /\ comments' = IF result = "OK"
                        THEN [comments EXCEPT ![commentId] = addReaction(comment, userId, emoji)]
                        ELSE comments
         /\ last' = Response("addReaction", userId, CommentPid(comment), CommentTid(comment),
                             Nil, CommentRequest(commentId, emoji), result)
         /\ Logged(result, "comment.reaction_added", "comment", commentId, userId,
                   ProjectRef(CommentPid(comment)))
  /\ UNCHANGED <<projects, tasks, inflight, session>>

CommentService_removeReaction(commentId, emoji, userId) ==
  /\ Tick
  /\ LET comment == findById(comments, commentId)
         result == ReactionAccess(comment, userId)
     IN  /\ comments' = IF result = "OK"
                        THEN [comments EXCEPT ![commentId] =
                                removeReaction(comment, userId, emoji)]
                        ELSE comments
         /\ last' = Response("removeReaction", userId, CommentPid(comment),
                             CommentTid(comment), Nil, CommentRequest(commentId, emoji), result)
         /\ Logged(result, "comment.reaction_removed", "comment", commentId, userId,
                   ProjectRef(CommentPid(comment)))
  /\ UNCHANGED <<projects, tasks, inflight, session>>

CommentNext ==
  \/ \E t \in TaskIds, c \in {NoParent, 1}, u \in Users : CommentService_createComment(t, c, u)
  \/ \E c \in CommentIds, d \in UpdateCommentPayloads, u \in Users :
        CommentService_updateComment(c, d, u)
  \/ \E c \in CommentIds, u \in Users : CommentService_deleteComment(c, u)
  \/ \E c \in CommentIds, e \in Emojis, u \in Users : CommentService_addReaction(c, e, u)
  \/ \E c \in CommentIds, e \in Emojis, u \in Users : CommentService_removeReaction(c, e, u)

Next == ProjectNext \/ TaskNext \/ CommentNext

Spec == Init /\ [][Next]_vars

(* ------------- task requests on a populated task collection ------------ *)
TaskStoreIds == {1, 2, 3}

\* tasks as earlier createTask, updateTask and updateTaskPosition requests leave
\* them: any position, and a projectId an update body may have replaced
StoredTasks ==
  { [SeedTask EXCEPT !.projectId = p, !.position = n] : p \in ProjectIds, n \in Positions }

\* the seeded project with a given task collection
PopulatedDatabase(store) ==
  /\ projects = [p \in ProjectIds |-> IF p = 1 THEN SeedProject ELSE NoDoc]
  /\ tasks = store
  /\ comments = [c \in CommentIds |-> NoDoc]
  /\ log = << >>
  /\ now = 0
  /\ last = NoResponse
  /\ inflight = [s \in Slots |-> Idle]
  /\ SignedOut

InitTask ==
  \E a \in StoredTasks, b \in {[SeedTask EXCEPT !.status = "completed"], NoDoc} :
    PopulatedDatabase([t \in TaskStoreIds |-> IF t = 1 THEN a ELSE IF t = 2 THEN b ELSE NoDoc])

SpecTask == InitTask /\ [][TaskNext]_vars

(* ---------------- interleaved membership requests (read ... save) ------ *)
\* findById, the permission check and the in-memory change run without a
\* suspension point; the request then awaits project.save()
Begin(s, op, pid, memberUserId, role, userId, changed) ==
  /\ inflight[s] = Idle
  /\ \A z \in Slots : z < s => inflight[z] # Idle
  /\ now < MaxConcRequests
  /\ now' = now + 1
  /\ LET project == findById(projects, pid)
         result == IF project = Null THEN "PROJECT_NOT_FOUND"
                   ELSE IF ~hasPermission(project, userId, "canInvite")
                        THEN "INSUFFICIENT_PERMISSIONS"
                   ELSE "OK"
     IN  IF result = "OK"
         THEN /\ inflight' = [inflight EXCEPT ![s] =
                   [pc |-> "save", op |-> op, actor |-> userId, pid |-> pid,
                    target |-> memberUserId, arg |-> role, doc |-> changed]]
              /\ last' = last
         ELSE /\ inflight' = inflight
              /\ last' = Reply(op, userId, pid, 0, memberUserId, role, result)
  /\ UNCHANGED <<projects, tasks, comments, log, session>>

Begin_addMember(s, pid, memberUserId, role, userId) ==
  Begin(s, "addMember", pid, memberUserId, role, userId,
        IF findById(projects, pid) = Null THEN Null
        ELSE addMember(findById(projects, pid), memberUserId, role, now'))

Begin_removeMember(s, pid, memberUserId, userId) ==
  Begin(s, "removeMember", pid, memberUserId, Nil, userId,
        IF findById(projects, pid) = Null THEN Null
        ELSE removeMember(findById(projects, pid), memberUserId))

Begin_updateMemberRole(s, pid, memberUserId, role, userId) ==
  Begin(s, "updateMemberRole", pid, memberUserId, role, userId,
        IF findById(projects, pid) = Null THEN Null
        ELSE updateMemberRole(findById(projects, pid), memberUserId, role))

\* project.save(): the in-memory document replaces the stored one
Save(s) ==
  /\ inflight[s] # Idle
  /\ LET r == inflight[s]
         result == IF findById(projects, r.pid) = Null THEN "DOCUMENT_NOT_FOUND" ELSE "OK"
     IN  /\ projects' = IF result = "OK" THEN [projects EXCEPT ![r.pid] = r.doc] ELSE projects
         /\ last' = Reply(r.op, r.actor, r.pid, 0, r.target, r.arg, result)
         /\ Logged(result, ActivityOf(r.op), "project", r.pid, r.actor, ProjectRef(r.pid))
  /\ inflight' = [inflight EXCEPT ![s] = Idle]
  /\ UNCHANGED <<tasks, comments, now, session>>

NextConc ==
  \/ \E s \in Slots, p \in ProjectIds, m \in Users, r \in InviteRoles, u \in Users :
        Begin_addMember(s, p, m, r, u)
  \/ \E s \in Slots, p \in ProjectIds, m \in Users, u \in Users :
        Begin_removeMember(s, p, m, u)
  \/ \E s \in Slots, p \in ProjectIds, m \in Users, r \in InviteRoles, u \in Users :
        Begin_updateMemberRole(s, p, m, r, u)
  \/ \E s \in Slots : Save(s)
  \/ \E p \in ProjectIds, u \in Users :
        now < MaxConcRequests /\ ProjectService_deleteProject(p, u)
  \/ \E p \in ProjectIds, d \in UpdateProjectPayloads, u \in Users :
        now < MaxConcRequests /\ ProjectService_updateProject(p, d, u)

SpecConc == Init /\ [][NextConc]_vars

(* ------------- interleaved task requests (read ... save) --------------- *)
\* a request slot: Idle, then "save" from its reads up to its await task.save(),
\* then "done" with the outcome; a slot serves one request
Claim(s) ==
  /\ inflight[s] = Idle
  /\ \A z \in Slots : z < s => inflight[z] # Idle
  /\ now < MaxConcRequests
  /\ now' = now + 1

\* createTask up to await task.save(): project and membership checks, the
\* lastTask query, new Task({...})
Begin_createTask(s, projectId, assigneeId, createdById) ==
  /\ Claim(s)
  /\ LET project == findById(projects, projectId)
         result == IF project = Null THEN "PROJECT_NOT_FOUND"
                   ELSE IF ~isMember(project, createdById) THEN "ACCESS_DENIED"
                   ELSE IF assigneeId # Nil /\ ~isMember(project, assigneeId)
                        THEN "INVALID_ASSIGNEE"
                   ELSE "OK"
     IN  IF result = "OK"
         THEN /\ inflight' = [inflight EXCEPT ![s] =
                   [pc |-> "save", op |-> "createTask", actor |-> createdById,
                    pid |-> projectId, tid |-> 0, arg |-> Nil, read |-> Null,
                    doc |-> [projectId |-> projectId, assigneeId |-> assigneeId,
                             createdById |-> createdById, status |-> "pending",
                             position |-> nextPosition(projectId), isArchived |-> FALSE],
                    result |-> Nil, savedAt |-> 0]]
              /\ last' = last
         ELSE /\ inflight' = inflight
              /\ last' = Response("createTask", createdById, projectId, 0,
                                  assigneeId, Nil, result)
  /\ UNCHANGED <<projects, tasks, comments, log, session>>

\* updateTask up to await task.save(): findById, the checks, Object.assign(task, data)
Begin_updateTask(s, taskId, data, userId) ==
  /\ Claim(s)
  /\ LET task == findById(tasks, taskId)
         result == TaskManageAccess(task, userId)
     IN  IF result = "OK"
         THEN /\ inflight' = [inflight EXCEPT ![s] =
                   [pc |-> "save", op |-> "updateTask", actor |-> userId,
                    pid |-> task.projectId, tid |-> taskId, arg |-> data, read |-> task,
                    doc |-> assign(task, data), result |-> Nil, savedAt |-> 0]]
              /\ last' = last
         ELSE /\ inflight' = inflight
              /\ last' = Reply("updateTask", userId, TaskPid(task), taskId, Nil, data, result)
  /\ UNCHANGED <<projects, tasks, comments, log, session>>

\* slip: save() guarded by a version token, a document changed since it was
\* read is not written
SaveTask_versioned(s) ==
  /\ inflight[s] # Idle
  /\ inflight[s].pc = "save"
  /\ LET r == inflight[s]
         tid == IF r.op = "createTask" THEN FirstIndex(FreeIds(tasks)) ELSE r.tid
         result == IF r.op = "updateTask" /\ findById(tasks, r.tid) = Null
                   THEN "DOCUMENT_NOT_FOUND"
                   ELSE IF r.op = "updateTask" /\ tasks[r.tid] # r.read
                        THEN "VERSION_CONFLICT"
                   ELSE "OK"
     IN  /\ r.op = "createTask" => FreeIds(tasks) # {}
         /\ tasks' = IF result = "OK" THEN [tasks EXCEPT ![tid] = r.doc] ELSE tasks
         /\ last' = Reply(r.op, r.actor, r.pid, tid, r.doc.assigneeId, r.arg, result)
         /\ Logged(result, ActivityOf(r.op), "task", tid, r.actor,
                   ProjectRef(r.doc.projectId))
         /\ inflight' = [inflight EXCEPT ![s] =
                           [r EXCEPT !.pc = "done", !.tid = tid, !.result = result,
                                     !.savedAt = Len(log')]]
  /\ UNCHANGED <<projects, comments, now, session>>

\* task.save() and the rest of the handler: a new document is inserted under a
\* fresh id, a loaded one replaces the stored document
SaveTask(s) ==
  /\ inflight[s] # Idle
  /\ inflight[s].pc = "save"
  /\ LET r == inflight[s]
         tid == IF r.op = "createTask" THEN FirstIndex(FreeIds(tasks)) ELSE r.tid
         result == IF r.op = "updateTask" /\ findById(tasks, r.tid) = Null
                   THEN "DOCUMENT_NOT_FOUND" ELSE "OK"
     IN  /\ r.op = "createTask" => FreeIds(tasks) # {}
         /\ tasks' = IF result = "OK" THEN [tasks EXCEPT ![tid] = r.doc] ELSE tasks
         /\ last' = Reply(r.op, r.actor, r.pid, tid, r.doc.assigneeId, r.arg, result)
         /\ Logged(result, ActivityOf(r.op), "task", tid, r.actor,
                   ProjectRef(r.doc.projectId))
         /\ inflight' = [inflight EXCEPT ![s] =
                           [r EXCEPT !.pc = "done", !.tid = tid, !.result = result,
                                     !.savedAt = Len(log')]]
  /\ UNCHANGED <<projects, comments, now, session>>

NextTaskConc ==
  \/ \E s \in Slots, p \in ProjectIds, u \in Users : Begin_createTask(s, p, Nil, u)
  \/ \E s \in Slots, t \in DOMAIN tasks, d \in UpdateTaskPayloads, u \in Users :
        Begin_updateTask(s, t, d, u)
  \/ \E s \in Slots : SaveTask(s)
  \/ \E t \in DOMAIN tasks, u \in Users :
        now < MaxConcRequests /\ TaskService_deleteTask(t, u)

InitTaskConc ==
  PopulatedDatabase([t \in TaskStoreIds |-> IF t = 1 THEN SeedTask ELSE NoDoc])

SpecTaskConc == InitTaskConc /\ [][NextTaskConc]_vars

(* ------------------------- membership requests ------------------------ *)
\* projects are created, and users holding canInvite add members and change
\* member roles; the role of a request is one the route validation lets through
MemberNext ==
  \/ \E u \in Users : ProjectService_createProject(u)
  \/ \E p \in ProjectIds, m \in Users, r \in InviteRoles, u \in Users :
        ProjectService_addMember(p, m, r, u)
  \/ \E p \in ProjectIds, m \in Users, r \in InviteRoles, u \in Users :
        ProjectService_updateMemberRole(p, m, r, u)

SpecMembers == Init /\ [][MemberNext]_vars

(* ------------------------- the task list query ------------------------- *)
\* filters of GET /tasks; 0 and Nil stand for an absent filter
TaskFilters == [projectId : {0} \cup ProjectIds, status : {Nil, "completed"}]

\* Project.find({$or: [{ownerId: userId}, {'members.userId': userId}]}).select('_id')
userProjects(userId) ==
  {p \in DOMAIN projects :
     IsDoc(projects[p]) /\ (projects[p].ownerId = userId \/ isMember(projects[p], userId))}

\* the query object as getTasks leaves it before Task.find: isArchived false,
\* the status filter, and projectId, assigned from filters.projectId first and
\* reassigned to {$in: projectIds} afterwards
getTasks(userId, filters) ==
  {t \in DOMAIN tasks :
     /\ IsDoc(tasks[t])
     /\ ~tasks[t].isArchived
     /\ filters.status # Nil => tasks[t].status = filters.status
     /\ tasks[t].projectId \in userProjects(userId)}

\* the first page, which holds every match at these collection sizes
TaskService_getTasks(userId, filters) ==
  /\ Tick
  /\ last' = Response("getTasks", userId, filters.projectId, 0,
                      getTasks(userId, filters), filters, "OK")
  /\ UNCHANGED <<projects, tasks, comments, log, inflight, session>>

\* PUT /tasks/:id with a body that archives the task
ArchivePayloads == {[isArchived |-> TRUE]}

QueryNext ==
  \/ \E u \in Users, f \in TaskFilters : TaskService_getTasks(u, f)
  \/ \E t \in DOMAIN tasks, d \in ArchivePayloads, u \in Users :
        TaskService_updateTask(t, d, u)
  \/ \E p \in ProjectIds, u \in Users : TaskService_createTask(p, Nil, u)

\* a second project as createProject by the member user stores it
SecondProject == [ownerId |-> "u2", status |-> "active", members |-> << >>]

InitQuery ==
  /\ projects \in {[p \in ProjectIds |-> IF p = 1 THEN SeedProject ELSE x] :
                     x \in {NoDoc, SecondProject}}
  /\ tasks \in {[t \in TaskStoreIds |-> IF t = 1 THEN a ELSE IF t = 2 THEN b ELSE NoDoc] :
                  a \in {[SeedTask EXCEPT !.projectId = p, !.isArchived = x] :
                          p \in ProjectIds, x \in BOOLEAN},
                  b \in {NoDoc, [SeedTask EXCEPT !.status = "completed", !.projectId = 2]}}
  /\ comments = [c \in CommentIds |-> NoDoc]
  /\ log = << >>
  /\ now = 0
  /\ last = NoResponse
  /\ inflight = [s \in Slots |-> Idle]
  /\ SignedOut

SpecQuery == InitQuery /\ [][QueryNext]_vars

(* ------------- requests whose ActivityLog write throws ----------------- *)
\* the error of the failed write reaches the caller through the handler's
\* catch block, which logs and rethrows it
LogWriteError == "INTERNAL_ERROR"

\* what the caller observes when the write throws
Failed(op, actor, pid, tid, target, arg) ==
  Response(op, actor, pid, tid, target, arg, LogWriteError)

\* createTask: task.save() has run when logActivity throws
TaskService_createTask_logFails(projectId, assigneeId, createdById) ==
  /\ Tick
  /\ LET project == findById(projects, projectId)
     IN  /\ project # Null
         /\ isMember(project, createdById)
         /\ assigneeId # Nil => isMember(project, assigneeId)
  /\ FreeIds(tasks) # {}
  /\ LET tid == FirstIndex(FreeIds(tasks))
     IN  /\ tasks' = [tasks EXCEPT ![tid] =
                        [projectId |-> projectId, assigneeId |-> assigneeId,
                         createdById |-> createdById, status |-> "pending",
                         position |-> nextPosition(projectId), isArchived |-> FALSE]]
         /\ last' = Failed("createTask", createdById, projectId, tid, assigneeId, Nil)
  /\ UNCHANGED <<projects, comments, log, inflight, session>>

\* updateTask: Object.assign and task.save() have run when logActivity throws
TaskService_updateTask_logFails(taskId, data, userId) ==
  /\ Tick
  /\ LET task == findById(tasks, taskId)
     IN  /\ TaskManageAccess(task, userId) = "OK"
         /\ tasks' = [tasks EXCEPT ![taskId] = assign(task, data)]
         /\ last' = Failed("updateTask", userId, TaskPid(task), taskId, Nil, data)
  /\ UNCHANGED <<projects, comments, log, inflight, session>>

\* updateTaskPosition: the position is saved when logActivity throws
TaskService_updateTaskPosition_logFails(taskId, newPosition, userId) ==
  /\ Tick
  /\ LET task == findById(tasks, taskId)
     IN  /\ TaskAccess(task, userId) = "OK"
         /\ tasks' = [tasks EXCEPT ![taskId] = [task EXCEPT !.position = newPosition]]
         /\ last' = Failed("updateTaskPosition", userId, TaskPid(task), taskId, Nil,
                           newPosition)
  /\ UNCHANGED <<projects, comments, log, inflight, session>>

\* slip: the task is removed first and the entry written afterwards
TaskService_deleteTask_logFails_deleteFirst(taskId, userId) ==
  /\ Tick
  /\ LET task == findById(tasks, taskId)
     IN  /\ TaskManageAccess(task, userId) = "OK"
         /\ tasks' = [tasks EXCEPT ![taskId] = Deleted]
         /\ last' = Failed("deleteTask", userId, TaskPid(task), taskId, Nil, Nil)
  /\ UNCHANGED <<projects, comments, log, inflight, session>>

\* deleteTask: logActivity throws before Task.findByIdAndDelete is reached
TaskService_deleteTask_logFails(taskId, userId) ==
  /\ Tick
  /\ LET task == findById(tasks, taskId)
     IN  /\ TaskManageAccess(task, userId) = "OK"
         /\ last' = Failed("deleteTask", userId, TaskPid(task), taskId, Nil, Nil)
  /\ UNCHANGED <<projects, tasks, comments, log, inflight, session>>

\* addMember: project.save() has run when logActivity throws
ProjectService_addMember_logFails(pid, memberUserId, role, userId) ==
  /\ Tick
  /\ LET project == findById(projects, pid)
     IN  /\ project # Null
         /\ hasPermission(project, userId, "canInvite")
         /\ projects' = [projects EXCEPT ![pid] = addMember(project, memberUserId, role, now')]
         /\ last' = Failed("addMember", userId, pid, 0, memberUserId, role)
  /\ UNCHANGED <<tasks, comments, log, inflight, session>>

\* deleteProject: logActivity throws before Project.findByIdAndDelete is reached
ProjectService_deleteProject_logFails(pid, userId) ==
  /\ Tick
  /\ LET project == findById(projects, pid)
     IN  /\ project # Null
         /\ hasPermission(project, userId, "canDelete")
         /\ last' = Failed("deleteProject", userId, pid, 0, Nil, Nil)
  /\ UNCHANGED <<projects, tasks, comments, log, inflight, session>>

LogFailNext ==
  \/ \E p \in ProjectIds, a \in Users \cup {Nil}, u \in Users :
        TaskService_createTask_logFails(p, a, u)
  \/ \E t \in DOMAIN tasks, d \in UpdateTaskPayloads, u \in Users :
        TaskService_updateTask_logFails(t, d, u)
  \/ \E t \in DOMAIN tasks, n \in Positions, u \in Users :
        TaskService_updateTaskPosition_logFails(t, n, u)
  \/ \E t \in DOMAIN tasks, u \in Users : TaskService_deleteTask_logFails(t, u)
  \/ \E p \in ProjectIds, m \in Users, r \in InviteRoles, u \in Users :
        ProjectService_addMember_logFails(p, m, r, u)
  \/ \E p \in ProjectIds, u \in Users : ProjectService_deleteProject_logFails(p, u)

\* requests whose log write throws, among task requests whose write succeeds
NextLogFail == LogFailNext \/ TaskNext

SpecLogFail == Init /\ [][NextLogFail]_vars

(* ---------------------- authController, authenticate ------------------ *)
\* the clock counts seconds; the behaviours are far shorter than the lifetime of
\* a token (15 minutes, 7 days), so a token issued within one never expires in
\* it; a pair with a negative issue time stands for one issued more than 15
\* minutes and less than 7 days before the behaviour starts, so its access token
\* has expired and its refresh token has not
Outdated == 0 - 1

generateTokenPair(userId, t) ==
  [accessToken |-> Token("access", userId, t), refreshToken |-> Token("refresh", userId, t)]

\* jwt.verify with the access secret
verifyAccessToken(token) == token.kind = "access" /\ token.iat # Outdated

\* jwt.verify with the refresh secret
verifyRefreshToken(token) == token.kind = "refresh"

AccessTokens == {Token("access", t.userId, t.iat) : t \in issued.all}

AuthResponse(op, actor, presented, tokens, result) ==
  Response(op, actor, 0, 0, presented, tokens, result)

\* redisClient.setEx(`refresh_token:${userId}`, ttl, token), and the token leaves
\* the server in the response
StoreAndIssue(userId, token) ==
  /\ redis' = [redis EXCEPT ![userId] = token]
  /\ issued' = [issued EXCEPT !.all = @ \cup {token}]

AuthFrame == UNCHANGED <<projects, tasks, comments, log, inflight>>

authController_signup(userId) ==
  /\ accounts[userId] = NoDoc \/ IsDoc(accounts[userId])
  /\ IF accounts[userId] # NoDoc
     THEN /\ last' = AuthResponse("signup", userId, NoToken, Nil,
                                  IF accounts[userId].isActive THEN "USER_EXISTS"
                                  ELSE "DUPLICATE_KEY")
          /\ UNCHANGED <<accounts, redis, issued>>
     ELSE /\ accounts' = [accounts EXCEPT ![userId] = [roles |-> {"member"}, isActive |-> TRUE]]
          /\ StoreAndIssue(userId, generateTokenPair(userId, now).refreshToken)
          /\ last' = AuthResponse("signup", userId, NoToken, generateTokenPair(userId, now),
                                  "OK")
  /\ UNCHANGED <<now, client>>
  /\ AuthFrame

authController_login(userId, passwordValid) ==
  /\ LET user == accounts[userId]
         result == IF user = NoDoc THEN "INVALID_CREDENTIALS"
                   ELSE IF ~user.isActive THEN "ACCOUNT_DEACTIVATED"
                   ELSE IF ~passwordValid THEN "INVALID_CREDENTIALS"
                   ELSE "OK"
     IN  IF result = "OK"
         THEN /\ StoreAndIssue(userId, generateTokenPair(userId, now).refreshToken)
              /\ last' = AuthResponse("login", userId, NoToken,
                                      generateTokenPair(userId, now), result)
         ELSE /\ last' = AuthResponse("login", userId, NoToken, Nil, result)
              /\ UNCHANGED <<redis, issued>>
  /\ UNCHANGED <<accounts, now, client>>
  /\ AuthFrame

\* slip: the refresh handler looks the user up and skips the isActive test
RefreshCheck_userExists(refreshToken) ==
  IF refreshToken = NoToken THEN "REFRESH_TOKEN_REQUIRED"
  ELSE IF ~verifyRefreshToken(refreshToken) THEN "INVALID_TOKEN"
  ELSE IF redis[refreshToken.userId] = NoToken \/ redis[refreshToken.userId] # refreshToken
       THEN "INVALID_REFRESH_TOKEN"
  ELSE IF accounts[refreshToken.userId] = NoDoc THEN "USER_NOT_FOUND"
  ELSE "OK"

\* the checks of POST /auth/refresh on a presented token
RefreshCheck(refreshToken) ==
  IF refreshToken = NoToken THEN "REFRESH_TOKEN_REQUIRED"
  ELSE IF ~verifyRefreshToken(refreshToken) THEN "INVALID_TOKEN"
  ELSE IF redis[refreshToken.userId] = NoToken \/ redis[refreshToken.userId] # refreshToken
       THEN "INVALID_REFRESH_TOKEN"
  ELSE IF accounts[refreshToken.userId] = NoDoc \/ ~accounts[refreshToken.userId].isActive
       THEN "USER_NOT_FOUND"
  ELSE "OK"

\* the handler's writes and its response
RefreshTokens(refreshToken) ==
  LET result == RefreshCheck(refreshToken)
      userId == refreshToken.userId
  IN  IF result = "OK"
      THEN /\ redis' = [redis EXCEPT ![userId] = generateTokenPair(userId, now).refreshToken]
           /\ issued' = [issued EXCEPT
                           !.all = @ \cup {generateTokenPair(userId, now).refreshToken},
                           !.exchanged = @ \cup {refreshToken}]
           /\ last' = AuthResponse("refresh", userId, refreshToken,
                                   generateTokenPair(userId, now), result)
      ELSE /\ last' = AuthResponse("refresh", userId, refreshToken, Nil, result)
           /\ UNCHANGED <<redis, issued>>

authController_refreshToken(refreshToken) ==
  /\ RefreshTokens(refreshToken)
  /\ UNCHANGED <<accounts, now, client>>
  /\ AuthFrame

\* POST /auth/logout sent by userId, with or without the refresh token in the
\* body. The auth router mounts no authenticate middleware, so req.user is
\* undefined: with a token in the body the read of user.userId throws before
\* redisClient.del is reached, and without one the handler skips the deletion
authController_logout(userId, refreshToken) ==
  /\ LET result == IF refreshToken # NoToken THEN "INTERNAL_ERROR" ELSE "OK"
     IN  /\ issued' = IF result = "OK"
                      THEN [issued EXCEPT
                              !.loggedOut = @ \cup {t \in issued.all : t.userId = userId}]
                      ELSE issued
         /\ last' = AuthResponse("logout", userId, refreshToken, Nil, result)
  /\ UNCHANGED <<accounts, redis, now, client>>
  /\ AuthFrame

\* the authenticate middleware in front of a protected route
Authenticate(token) ==
  IF token = NoToken THEN "MISSING_TOKEN"
  ELSE IF ~verifyAccessToken(token) THEN "INVALID_TOKEN"
  ELSE IF accounts[token.userId] = NoDoc THEN "USER_NOT_FOUND"
  ELSE IF ~accounts[token.userId].isActive THEN "ACCOUNT_DEACTIVATED"
  ELSE "OK"

authenticate(token) ==
  /\ last' = AuthResponse("authenticate", token.userId, token, Nil, Authenticate(token))
  /\ UNCHANGED <<accounts, redis, issued, now, client>>
  /\ AuthFrame

\* user.role as the user service reads it: the User schema stores `roles`, an
\* array, and has no `role` path, so the read gives undefined
UserRole(user) == Nil

UserService_deactivateUser(userId, adminId) ==
  /\ LET user == accounts[userId]
         result == IF user = NoDoc THEN "USER_NOT_FOUND"
                   ELSE IF UserRole(user) = "admin" THEN "CANNOT_DEACTIVATE_ADMIN"
                   ELSE "OK"
     IN  /\ result = "OK" => Len(log) < MaxAuditEntries
         /\ accounts' = IF result = "OK"
                        THEN [accounts EXCEPT ![userId].isActive = FALSE]
                        ELSE accounts
         /\ Logged(result, "user.deactivated", "user", userId, adminId, ProjectRef(0))
         /\ last' = AuthResponse("deactivateUser", adminId, NoToken, userId, result)
  /\ UNCHANGED <<redis, issued, now, client>>
  /\ UNCHANGED <<projects, tasks, comments, inflight>>

UserService_activateUser(userId, adminId) ==
  /\ LET user == accounts[userId]
         result == IF user = NoDoc THEN "USER_NOT_FOUND" ELSE "OK"
     IN  /\ result = "OK" => Len(log) < MaxAuditEntries
         /\ accounts' = IF result = "OK"
                        THEN [accounts EXCEPT ![userId].isActive = TRUE]
                        ELSE accounts
         /\ Logged(result, "user.activated", "user", userId, adminId, ProjectRef(0))
         /\ last' = AuthResponse("activateUser", adminId, NoToken, userId, result)
  /\ UNCHANGED <<redis, issued, now, client>>
  /\ UNCHANGED <<projects, tasks, comments, inflight>>

\* a second passes
Advance ==
  /\ now < MaxSeconds
  /\ now' = now + 1
  /\ UNCHANGED <<accounts, redis, issued, client, last>>
  /\ AuthFrame

\* the user who signs up and signs in, and whom the seeded admin deactivates and
\* activates through the user service
AuthUsers == {"u3"}

AuthNext ==
  \/ \E u \in AuthUsers : authController_signup(u)
  \/ \E u \in AuthUsers, ok \in BOOLEAN : authController_login(u, ok)
  \/ \E t \in issued.all \cup {NoToken} : authController_refreshToken(t)
  \/ \E u \in AuthUsers :
        \E t \in {x \in issued.all : x.userId = u} \cup {NoToken} :
           authController_logout(u, t)
  \/ \E t \in AccessTokens \cup {NoToken} : authenticate(t)
  \/ \E u \in AuthUsers : UserService_deactivateUser(u, "u1")
  \/ \E u \in AuthUsers : UserService_activateUser(u, "u1")
  \/ Advance

SpecAuth == Init /\ [][AuthNext]_vars

(* ----------------------- the web client's interceptor ------------------ *)
\* requests the browser has under way at the same time
MaxClientRequests == 2

Requests == 1..MaxClientRequests

NoPair == [accessToken |-> NoToken, refreshToken |-> NoToken]

\* a request the application has not sent yet
IdleRequest ==
  [pc |-> "idle", access |-> NoToken, refresh |-> NoToken, retry |-> FALSE,
   attempts |-> 0, reply |-> NoPair, refreshable |-> FALSE, outcome |-> "none"]

\* request interceptor: the Authorization header carries the stored access token
Client_send(i) ==
  /\ client.requests[i].pc = "idle"
  /\ client' = [client EXCEPT
                  !.requests[i].pc = "sent",
                  !.requests[i].attempts = 1,
                  !.requests[i].access = IF client.storage = NoDoc THEN NoToken
                                         ELSE client.storage.accessToken]
  /\ UNCHANGED <<accounts, redis, issued, now, last>>
  /\ AuthFrame

\* the server's answer to request i and the response interceptor up to its
\* refresh call: a 401 on a request not yet retried marks it _retry and, when
\* the storage holds a refresh token, posts that token to /auth/refresh; any
\* other 401 is passed on to the caller
Client_response(i) ==
  /\ client.requests[i].pc = "sent"
  /\ LET r == client.requests[i]
         result == Authenticate(r.access)
     IN  /\ last' = AuthResponse("authenticate", r.access.userId, r.access, Nil, result)
         /\ client' =
              IF result = "OK"
              THEN [client EXCEPT !.requests[i].pc = "done", !.requests[i].outcome = "ok"]
              ELSE IF ~r.retry /\ client.storage # NoDoc
              THEN [client EXCEPT
                      !.requests[i].retry = TRUE,
                      !.requests[i].pc = "refreshing",
                      !.requests[i].refresh = client.storage.refreshToken,
                      !.requests[i].refreshable =
                          (RefreshCheck(client.storage.refreshToken) = "OK")]
              ELSE [client EXCEPT
                      !.requests[i].retry = TRUE,
                      !.requests[i].pc = "done",
                      !.requests[i].outcome = "rejected"]
  /\ UNCHANGED <<accounts, redis, issued, now>>
  /\ AuthFrame

\* the server handles the refresh call of request i
Server_refresh(i) ==
  /\ client.requests[i].pc = "refreshing"
  /\ RefreshTokens(client.requests[i].refresh)
  /\ client' = [client EXCEPT
                  !.requests[i].pc = "refreshed",
                  !.requests[i].reply =
                      IF RefreshCheck(client.requests[i].refresh) = "OK"
                      THEN generateTokenPair(client.requests[i].refresh.userId, now)
                      ELSE NoPair]
  /\ UNCHANGED <<accounts, now>>
  /\ AuthFrame

\* the interceptor after its refresh call: a new pair is written into the
\* storage and the request goes out again with the new access token; a failed
\* call, or a storage emptied in the meantime (authStorage.state is undefined
\* and the assignment throws), ends in the catch block, which removes the storage
Client_refreshed(i) ==
  /\ client.requests[i].pc = "refreshed"
  /\ LET r == client.requests[i]
     IN  client' =
           IF r.reply # NoPair /\ client.storage # NoDoc
           THEN [client EXCEPT
                   !.storage = r.reply,
                   !.requests[i].pc = "sent",
                   !.requests[i].attempts = r.attempts + 1,
                   !.requests[i].access = r.reply.accessToken]
           ELSE [client EXCEPT
                   !.storage = NoDoc,
                   !.requests[i].pc = "done",
                   !.requests[i].outcome = "rejected"]
  /\ UNCHANGED <<accounts, redis, issued, now, last>>
  /\ AuthFrame

ClientNext ==
  \/ \E i \in Requests : Client_send(i)
  \/ \E i \in Requests : Client_response(i)
  \/ \E i \in Requests : Server_refresh(i)
  \/ \E i \in Requests : Client_refreshed(i)
  \/ Advance

\* the user signed up and signed in some time ago: the access token in the
\* browser's storage has expired, the refresh token is the one Redis holds
InitClient ==
  /\ EmptyDatabase
  /\ log = << >>
  /\ now = 0
  /\ last = NoResponse
  /\ inflight = [s \in Slots |-> Idle]
  /\ accounts = [SeedAccounts EXCEPT !["u3"] = [roles |-> {"member"}, isActive |-> TRUE]]
  /\ redis = [u \in Users |-> IF u = "u3" THEN generateTokenPair("u3", Outdated).refreshToken
                                ELSE NoToken]
  /\ issued = [NoTokens EXCEPT !.all = {generateTokenPair("u3", Outdated).refreshToken}]
  /\ client = [storage |-> generateTokenPair("u3", Outdated),
               requests |-> [i \in Requests |-> IdleRequest]]

SpecClient == InitClient /\ [][ClientNext]_vars

(* ======================= statements checked ============================ *)
StoredProjects == {p \in ProjectIds : IsDoc(projects[p])}

\* membership as the specification defines it: the owner, or a user with an entry
Member(project, u) ==
  u = project.ownerId \/ \E i \in 1..Len(project.members) : project.members[i].userId = u

MemberOf(pid, u) == pid \in StoredProjects /\ Member(projects[pid], u)

EntryRoles(project, u) == {project.members[i].role : i \in MemberIndexes(project, u)}

PermissionTable ==
  [owner  |-> {"canEdit", "canDelete", "canInvite", "canManageTasks"},
   admin  |-> {"canEdit", "canInvite", "canManageTasks"},
   member |-> {"canManageTasks"},
   viewer |-> {}]

\* the capability a user is meant to hold: the owner all four, others by their role
Holds(project, u, c) ==
  u = project.ownerId \/ \E r \in EntryRoles(project, u) : c \in PermissionTable[r]

ProjectMutations ==
  {"updateProject", "deleteProject", "addMember", "removeMember", "updateMemberRole"}

TaskOperations == {"getTaskById", "updateTask", "deleteTask", "updateTaskPosition"}

\* the role the specification gives a user: owner for the project's owner,
\* otherwise the role of the user's entry
RoleHeld(project, u) ==
  IF u = project.ownerId THEN {"owner"} ELSE EntryRoles(project, u)

\* C1: for a user holding a role hasPermission equals the fixed table (owner all
\* four, admin all but canDelete, member canManageTasks only, viewer none), and
\* it is false for a user who has no role in the project.
C1_PermissionTable ==
  \A p \in StoredProjects, u \in Users, c \in Capabilities :
    /\ \A r \in RoleHeld(projects[p], u) :
         hasPermission(projects[p], u, c) <=> (c \in PermissionTable[r])
    /\ (RoleHeld(projects[p], u) = {}) => ~hasPermission(projects[p], u, c)

\* C2: isMember(P, U) is true exactly when U is P's owner or U has an entry in
\* P's member list, in particular for an owner who has no entry.
C2_IsMemberIffOwnerOrListed ==
  \A p \in StoredProjects, u \in Users :
    isMember(projects[p], u) <=> Member(projects[p], u)

\* C3: after createProject and any sequence of addMember, removeMember and
\* updateMemberRole, the owner is a member, getMemberRole gives owner for them
\* and they hold all four capabilities.
C3_OwnerAlwaysMember ==
  \A p \in StoredProjects :
    /\ isMember(projects[p], projects[p].ownerId)
    /\ getMemberRole(projects[p], projects[p].ownerId) = "owner"
    /\ \A c \in Capabilities : hasPermission(projects[p], projects[p].ownerId, c)

\* C4: a mutating project operation on an existing project by a user who is not
\* a member fails with AccessDenied; InsufficientPermissions goes only to
\* members, NotFound only to requests for a project that does not exist.
C4_NonMemberAccessDenied ==
  (last.op \in ProjectMutations /\ last.result # "OK") =>
    /\ (last.result = "PROJECT_NOT_FOUND") <=> (last.pid \notin StoredProjects)
    /\ (last.pid \in StoredProjects /\ ~Member(projects[last.pid], last.actor))
          => last.result = "ACCESS_DENIED"
    /\ (last.result = "INSUFFICIENT_PERMISSIONS") => MemberOf(last.pid, last.actor)

\* C5: a task operation on an existing task by an actor who is not a member of
\* the task's project ends in AccessDenied, never in InsufficientPermissions,
\* and a missing task ends in NotFound whoever asks.
C5_TaskAccessOrder ==
  (last.op \in TaskOperations) =>
    /\ (last.result # "OK") =>
         ((last.result = "TASK_NOT_FOUND") <=> ~IsDoc(tasks[last.tid]))
    /\ (last.result \notin {"OK", "TASK_NOT_FOUND"}
          /\ ~MemberOf(tasks[last.tid].projectId, last.actor))
          => last.result = "ACCESS_DENIED"
    /\ (last.result = "INSUFFICIENT_PERMISSIONS")
          => MemberOf(tasks[last.tid].projectId, last.actor)
    /\ (last.result = "OK") => MemberOf(last.pid, last.actor)

C5_Witness ==
  /\ last.op \in {"updateTask", "deleteTask"}
  /\ last.result = "ACCESS_DENIED"
  /\ IsDoc(tasks[last.tid])
  /\ tasks[last.tid].projectId \in StoredProjects
  /\ ~Member(projects[tasks[last.tid].projectId], last.actor)

C7_CreateTaskChecks ==
  (last.op = "createTask") =>
    /\ (last.result = "PROJECT_NOT_FOUND") <=> (last.pid \notin StoredProjects)
    /\ (last.pid \in StoredProjects /\ ~Member(projects[last.pid], last.actor))
          => last.result = "ACCESS_DENIED"
    /\ (/\ last.pid \in StoredProjects
        /\ Member(projects[last.pid], last.actor)
        /\ last.target # Nil
        /\ ~Member(projects[last.pid], last.target))
          => last.result = "INVALID_ASSIGNEE"
    /\ (last.result = "OK") =>
          /\ MemberOf(last.pid, last.actor)
          /\ last.target # Nil => MemberOf(last.pid, last.target)
          /\ IsDoc(tasks[last.tid])
    /\ (last.result # "OK") => last.tid = 0

\* C8: the owner of a project adds Y as member; Y's createTask then succeeds and
\* Y's deleteProject fails with InsufficientPermissions, the project staying stored.
C8_OwnerInvitesMemberScenario ==
  /\ (/\ last.op = "addMember"
      /\ last.pid \in StoredProjects
      /\ last.actor = projects[last.pid].ownerId) => last.result = "OK"
  /\ (/\ last.op = "createTask"
      /\ last.pid \in StoredProjects
      /\ EntryRoles(projects[last.pid], last.actor) = {"member"}
      /\ last.target = Nil) => last.result = "OK"
  /\ (/\ last.op = "deleteProject"
      /\ last.pid \in StoredProjects
      /\ EntryRoles(projects[last.pid], last.actor) = {"member"}
      /\ last.actor # projects[last.pid].ownerId) => last.result = "INSUFFICIENT_PERMISSIONS"

\* C9: a stored member list never holds two entries for one userId, also when
\* addMember, updateMemberRole and removeMember requests interleave between
\* their read and their save.
C9_OneEntryPerUser ==
  \A p \in StoredProjects, u \in Users :
    Cardinality(MemberIndexes(projects[p], u)) <= 1

\* C10: addMember is an idempotent upsert: after addMember(u, r) the list holds
\* exactly one entry for u, with role r, and a second addMember(u, r) leaves the
\* list as it is; for a user who already has an entry only that entry's role
\* changes and no entry is added.
C10_AddMemberIdempotentUpsert ==
  /\ (last.op = "addMember" /\ last.result = "OK") =>
       LET p == projects[last.pid]
       IN  /\ Cardinality(MemberIndexes(p, last.target)) = 1
           /\ getMemberRole(p, last.target) = last.arg
           /\ \A t \in 0..(MaxClock + 1) : addMember(p, last.target, last.arg, t) = p
  /\ \A p \in StoredProjects, u \in Users, r \in Roles :
       MemberIndexes(projects[p], u) # {} =>
         LET old == projects[p].members
             new == addMember(projects[p], u, r, now + 1).members
         IN  /\ Len(new) = Len(old)
             /\ \A i \in 1..Len(old) :
                  IF old[i].userId = u
                  THEN new[i] \in {old[i], [old[i] EXCEPT !.role = r]}
                  ELSE new[i] = old[i]

\* the entries of a member list that belong to users other than u
OtherEntries(members, u) == SelectSeq(members, LAMBDA m : m.userId # u)

\* C11: updateMemberRole for a user without an entry leaves the member list as
\* it is (no entry created, no other role changed); for a user with an entry
\* only that user's role changes, to the role asked for, and nothing else of the
\* project does.
C11_UpdateMemberRoleFrame ==
  [][ (last'.op = "updateMemberRole" /\ last'.result = "OK") =>
        LET old == projects[last'.pid].members
            new == projects'[last'.pid].members
        IN  /\ Len(new) = Len(old)
            /\ \A i \in 1..Len(old) :
                 IF old[i].userId = last'.target
                 THEN new[i] \in {old[i], [old[i] EXCEPT !.role = last'.arg]}
                 ELSE new[i] = old[i]
            /\ (MemberIndexes(projects[last'.pid], last'.target) # {}) =>
                  getMemberRole(projects'[last'.pid], last'.target) = last'.arg
            /\ (MemberIndexes(projects[last'.pid], last'.target) = {}) => new = old
            /\ projects'[last'.pid] = [projects[last'.pid] EXCEPT !.members = new]
    ]_vars

C11_Witness ==
  /\ last.op = "updateMemberRole"
  /\ last.result = "OK"
  /\ last.pid \in StoredProjects
  /\ MemberIndexes(projects[last.pid], last.target) = {}
  /\ Len(projects[last.pid].members) = 2

\* C12: after removeMember(u) isMember(u) is false unless u is the project's
\* owner, for whom it stays true; a user without an entry leaves the list as it
\* is, and the entries of the other users are never touched.
C12_RemoveMemberThenNotMember ==
  [][ (last'.op = "removeMember" /\ last'.result = "OK") =>
        LET old == projects[last'.pid]
            new == projects'[last'.pid]
        IN  /\ isMember(new, last'.target) <=> (last'.target = new.ownerId)
            /\ OtherEntries(new.members, last'.target) = OtherEntries(old.members, last'.target)
            /\ (MemberIndexes(old, last'.target) = {}) => new.members = old.members
    ]_vars

C14_FreshTaskSortsLast ==
  (last.op = "createTask" /\ last.result = "OK") =>
    \A t \in DOMAIN tasks \ {last.tid} :
      (IsDoc(tasks[t]) /\ tasks[t].projectId = last.pid)
        => tasks[t].position < tasks[last.tid].position

C17_UpdateProjectKeepsOwnerAndMembers ==
  [][ \A p \in ProjectIds :
        (IsDoc(projects[p]) /\ IsDoc(projects'[p])) =>
          /\ projects'[p].ownerId = projects[p].ownerId
          /\ (projects'[p].members # projects[p].members) =>
                /\ last'.op \in {"addMember", "removeMember", "updateMemberRole"}
                /\ last'.result = "OK"
                /\ last'.pid = p
    ]_vars

\* C18: a task's projectId and creator are immutable after creation: no step
\* changes either field of a stored task, whatever the body of updateTask or
\* updateTaskPosition carries.
C18_TaskProjectAndCreatorImmutable ==
  [][ \A t \in DOMAIN tasks :
        (IsDoc(tasks[t]) /\ IsDoc(tasks'[t])) =>
          /\ tasks'[t].projectId = tasks[t].projectId
          /\ tasks'[t].createdById = tasks[t].createdById
    ]_vars

CommentEdits == {"updateComment", "deleteComment"}

CommentReactions == {"addReaction", "removeReaction"}

\* C19: updateComment and deleteComment change a comment only when the actor is
\* its author (any other actor is rejected with AccessDenied and the comment
\* stays as it was); addReaction and removeReaction change a comment's
\* reactions, and nothing else of it, only when the actor is at that moment a
\* member of the project of the comment's task; no other operation changes a
\* stored comment.
C19_CommentAuthorAndReactionMember ==
  [][ \A c \in CommentIds :
        IsDoc(comments[c]) =>
          /\ (comments'[c] # comments[c]) =>
                /\ last'.op \in CommentEdits \cup CommentReactions
                /\ last'.result = "OK"
                /\ last'.arg.commentId = c
                /\ (last'.op \in CommentEdits) => last'.actor = comments[c].authorId
                /\ (last'.op \in CommentReactions) =>
                      LET task == findById(tasks, comments[c].taskId)
                      IN  /\ task # Null
                          /\ MemberOf(task.projectId, last'.actor)
                          /\ comments'[c] = [comments[c] EXCEPT !.reactions = comments'[c].reactions]
          /\ ( /\ last'.op \in CommentEdits
               /\ now' # now
               /\ last'.arg.commentId = c
               /\ last'.actor # comments[c].authorId ) =>
                /\ last'.result = "ACCESS_DENIED"
                /\ comments' = comments
    ]_vars

\* a member's reaction is stored, then that member, who is not the author, is
\* refused the edit
C19_Witness ==
  /\ last.op = "updateComment"
  /\ last.result = "ACCESS_DENIED"
  /\ IsDoc(comments[last.arg.commentId])
  /\ last.actor # comments[last.arg.commentId].authorId
  /\ [userId |-> last.actor, emoji |-> "thumbsup"] \in comments[last.arg.commentId].reactions

TaskMutations == {"createTask", "updateTask", "deleteTask", "updateTaskPosition"}

CommentMutations ==
  {"createComment", "updateComment", "deleteComment", "addReaction", "removeReaction"}

\* the entry a successful mutation is expected to leave, read off its response
EntryOf(response) ==
  [action     |-> ActivityOf(response.op),
   entityType |-> IF response.op \in TaskMutations THEN "task"
                  ELSE IF response.op \in CommentMutations THEN "comment"
                  ELSE "project",
   entityId   |-> IF response.op \in TaskMutations THEN response.tid
                  ELSE IF response.op \in CommentMutations THEN response.arg.commentId
                  ELSE response.pid]

\* what an entry says was done, and to which entity
Subject(entry) ==
  [action |-> entry.action, entityType |-> entry.entityType, entityId |-> entry.entityId]

\* C20: every project, task or comment operation that succeeds after mutating
\* state has appended exactly one ActivityLog entry, the one for that mutation,
\* and no step changes or removes an entry the log already holds.
C20_OneLogEntryPerMutation ==
  [][ /\ Len(log') >= Len(log)
      /\ SubSeq(log', 1, Len(log)) = log
      /\ ( /\ now' # now
           /\ last'.op \in {"createProject"} \cup ProjectMutations \cup TaskMutations
                             \cup CommentMutations
           /\ last'.result = "OK" ) =>
            /\ Len(log') = Len(log) + 1
            /\ Subject(log'[Len(log')]) = EntryOf(last')
    ]_vars

\* two successful mutations of different entity types have left one entry each
C20_Witness ==
  /\ Len(log) = 2
  /\ log[1].entityType = "project"
  /\ log[2].entityType = "comment"
  /\ last.op = "deleteComment"
  /\ last.result = "OK"
  /\ Subject(log[2]) = EntryOf(last)

LastEntry == log[Len(log)]

\* C22: every ActivityLog entry written by the project, task and comment
\* services names as its actor the user who made the request and as its project
\* scope the project that holds the affected entity: the project itself, the
\* task's project, or the project of the comment's task.
C22_EntryActorAndProjectScope ==
  (last.result = "OK" /\ log # << >> /\ ActivityOf(last.op) = LastEntry.action) =>
     /\ LastEntry.userId = last.actor
     /\ LastEntry.projectId =
          ProjectRef(IF last.op \in TaskMutations /\ last.op # "deleteTask"
                     THEN tasks[last.tid].projectId
                     ELSE last.pid)

\* C23: once a logout by user U has completed, no refresh token issued to U
\* before it can be exchanged for a new token pair, whether or not the logout
\* request carried the refresh token.
C23_LogoutInvalidatesRefreshTokens ==
  [][ (now' = now /\ last'.op = "refresh" /\ last'.target \in issued.loggedOut) =>
        last'.result # "OK"
    ]_vars

\* C24: the tasks getTasks(user, filters) returns are not archived and belong to
\* projects the user owns or is a member of, and when filters.projectId is given
\* every returned task belongs to that project
C24_GetTasksScopedToUserAndProject ==
  last.op = "getTasks" =>
    \A t \in last.target :
      /\ IsDoc(tasks[t]) /\ ~tasks[t].isArchived
      /\ LET project == findById(projects, tasks[t].projectId)
         IN  project # Null /\ (project.ownerId = last.actor \/ isMember(project, last.actor))
      /\ last.arg.projectId # 0 => tasks[t].projectId = last.arg.projectId

\* C25: every write of a task's assignee, by createTask or by updateTask, stores
\* either no assignee or a user who is a member of the task's project when the
\* write happens (a later removeMember is a project write and changes no task)
C25_AssigneeWasProjectMember ==
  [][ \A t \in DOMAIN tasks :
        ( /\ IsDoc(tasks'[t])
          /\ tasks'[t].assigneeId # Nil
          /\ ~IsDoc(tasks[t]) \/ tasks[t].assigneeId # tasks'[t].assigneeId ) =>
          LET project == findById(projects, tasks'[t].projectId)
          IN  project # Null /\ isMember(project, tasks'[t].assigneeId)
    ]_vars

\* the error codes of the NotFound, AccessDenied, InsufficientPermissions and
\* InvalidAssignee failures
RejectionCodes ==
  {"PROJECT_NOT_FOUND", "TASK_NOT_FOUND", "COMMENT_NOT_FOUND", "PARENT_COMMENT_NOT_FOUND",
   "ACCESS_DENIED", "INSUFFICIENT_PERMISSIONS", "INVALID_ASSIGNEE"}

\* C26: a request of the project, task or comment service that is answered with
\* one of the rejection codes leaves every stored project, task and comment
\* unchanged and appends no ActivityLog entry
C26_RejectedRequestChangesNothing ==
  [][ (now' = now + 1 /\ last'.result \in RejectionCodes) =>
        UNCHANGED <<projects, tasks, comments, log>>
    ]_vars

\* C26 witness: a rejected updateTask follows a request that was served and logged
C26_Witness ==
  /\ last.op = "updateTask"
  /\ last.result = "INSUFFICIENT_PERMISSIONS"
  /\ Len(log) = 1
  /\ \E t \in DOMAIN tasks : IsDoc(tasks[t])

C28_OneRefreshTokenExchangedOnce ==
  [][ (now' = now /\ last'.op \in {"signup", "login", "refresh"} /\ last'.result = "OK") =>
        /\ \A t \in issued.all :
             t.userId = last'.actor => RefreshCheck(t)' = "INVALID_REFRESH_TOKEN"
        /\ last'.op = "refresh" => last'.target \notin issued.exchanged
    ]_vars

C30_ConcurrentRefreshKeepsSession ==
  /\ \A i \in Requests : client.requests[i].attempts <= 2
  /\ (\A i \in Requests : client.requests[i].pc = "done" /\ client.requests[i].refreshable) =>
        /\ \A i \in Requests : client.requests[i].refresh # NoToken
        /\ \A i \in Requests : client.requests[i].outcome = "ok"
        /\ client.storage # NoDoc

====
